---- MODULE Spec2Model ----
(***************************************************************************)
(* Model of the ingestion and retention pipeline of srchive                *)
(* (src/ingest_data.py): the retention controller cleanup_old_items, the   *)
(* classic ingestion ingest_classic_papers, the recent ingestion loop and  *)
(* the batched dual write to the Vector Index (Pinecone) and the Metadata  *)
(* Store (MongoDB).                                                        *)
(***************************************************************************)
EXTENDS Integers, Sequences, FiniteSets, TLC

(* ------------------------------ bounds --------------------------------- *)
\* number of distinct papers of the external repository
NPapers == 3
\* ingested_at values of the documents present at start: 0..MaxInitAt
MaxInitAt == 1
\* values of max_items tried when cleanup_old_items is exercised alone: 0..MaxCap
MaxCap == 4
\* invocations of cleanup_old_items in a row when it is exercised alone
MaxCalls == 2

(* ------------------- program constants (scaled down) ------------------- *)
\* src/ingest_data.py:13  MAX_ITEMS = 30000
MAX_ITEMS == 2
\* src/ingest_data.py:14  RECENT_ITEMS = 27000
RECENT_ITEMS == 3
\* src/ingest_data.py:15  CLASSIC_ITEMS = 3000
CLASSIC_ITEMS == 2
\* src/ingest_data.py:16  BATCH_SIZE = 200
BATCH_SIZE == 2
\* src/ingest_data.py:289  if weeks_to_go_back > 156
MAX_WEEKS_BACK == 1
\* src/ingest_data.py:240  max_results=5000
max_results == 2
\* src/ingest_data.py:35  pinecone_batch_size = 1000
pinecone_batch_size == 2

(* ------------------------------ state ---------------------------------- *)
VARIABLES
    coll,           \* Metadata Store: document id -> [type, ingested_at]
    index,          \* Vector Index: set of ids holding a vector
    pc,             \* position of the program
    ret,            \* caller of the running cleanup_old_items
    max_items,      \* argument of cleanup_old_items
    delete_ids,     \* local of cleanup_old_items
    i,              \* loop variable of the Pinecone delete loop
    idxLog,         \* history: id batches passed to index.delete by this invocation
    mongoLog,       \* history: id lists passed to collection.delete_many by this invocation
    coll0,          \* history: Metadata Store when this invocation started
    index0,         \* history: Vector Index when this invocation started
    calls,          \* history: number of cleanup_old_items invocations started
    failed,         \* history: some store call has raised
    processed_ids,  \* the Processed-ID Set
    vectors_batch,  \* staged (id, embedding) pairs: the ids
    mongo_batch,    \* staged UpdateOne operations
    todo,           \* new_classic_ids not yet visited by the classic loop
    classic_ingested,
    papers_ingested_count,
    weeks_to_go_back,
    found_in_chunk,
    results,        \* papers the current window's result iterator has not yielded yet
    clock,          \* datetime.now(timezone.utc)
    staged,         \* history: ids staged by the mode that is running or has just ended
    event,          \* history: what the last step was ("item_failed" or "none")
    github_ids,     \* local of ingest_classic_papers: the ids the GitHub source returned
    scholar_ids,    \* local of ingest_classic_papers: the ids the ranked-API source returned
    classic_ids_to_fetch, \* local of ingest_classic_papers: list(combined_ids)
    scholar_pc,     \* position in fetch_classic_ids_from_semantic_scholar
    scholar_n,      \* its argument n
    classic_ids,    \* its local classic_ids
    offset,         \* its local offset
    retries,        \* its local retries
    data,           \* its local data: the items of the page, <<>> for {} or no items
    requests,       \* history: the requests issued for the current page
    search_pc,      \* position in perform_search (src/app.py)
    queries,        \* its argument
    all_results,    \* its local all_results: entries [id, score]
    seen_ids,       \* its local seen_ids
    qlog,           \* history: per query handled, its text, its outcome, the ids matched
    search_results  \* what perform_search returned

storeVars == <<coll, index>>
cleanupVars == <<ret, max_items, delete_ids, i, idxLog, mongoLog, coll0, index0, calls>>
batchVars == <<vectors_batch, mongo_batch>>
classicVars == <<todo, classic_ingested>>
recentVars == <<papers_ingested_count, weeks_to_go_back, found_in_chunk, results>>
ingestVars == <<processed_ids, batchVars, classicVars, recentVars, clock, staged>>
discVars == <<github_ids, scholar_ids, classic_ids_to_fetch>>
scholarVars == <<scholar_pc, scholar_n, classic_ids, offset, retries, data, requests>>
searchVars == <<search_pc, queries, all_results, seen_ids, qlog, search_results>>
extraVars == <<discVars, scholarVars, searchVars>>
pipelineVars == <<pc, cleanupVars, failed, ingestVars, event, discVars>>
vars == <<coll, index, pc, ret, max_items, delete_ids, i, idxLog, mongoLog,
          coll0, index0, calls, failed, processed_ids, vectors_batch, mongo_batch,
          todo, classic_ingested, papers_ingested_count, weeks_to_go_back,
          found_in_chunk, results, clock, staged, event,
          github_ids, scholar_ids, classic_ids_to_fetch,
          scholar_pc, scholar_n, classic_ids, offset, retries, data, requests,
          search_pc, queries, all_results, seen_ids, qlog, search_results>>

(* ------------------------------ helpers -------------------------------- *)
\* An identifier is <<paper, 1>> when it carries a version suffix ("1706.03762v7")
\* and <<paper, 0>> when it does not ("1706.03762").  Documents are stored under
\* versioned identifiers only (entry_id.split("/")[-1]).
DocIds == (1..NPapers) \X {1}
BareIds == (1..NPapers) \X {0}
CandIds == DocIds \cup BareIds
Types == {"recent", "classic"}
Docs == [type : Types, ingested_at : 0..MaxInitAt]

Range(s) == {s[k] : k \in 1..Len(s)}
Min(a, b) == IF a < b THEN a ELSE b

\* the stores a run can start from: any documents, each with a vector
InitialStores == UNION {[S -> Docs] : S \in SUBSET DocIds}

\* the stores the whole pipeline is started from: any documents of any type,
\* the timestamp of a document fixed by its paper (some equal, some not)
PipelineStores ==
    {c \in InitialStores : \A d \in DOMAIN c : c[d].ingested_at = d[1] % (MaxInitAt + 1)}

(* --------------------- cleanup_old_items (24-46) ----------------------- *)
\* mutant of FindNonClassic: the type filter is missing
FindAnyType(c) == DOMAIN c

\* collection.find({"type": {"$ne": "classic"}})
FindNonClassic(c) == {d \in DOMAIN c : c[d].type # "classic"}

\* mutant of SortAscending: sorted newest first
RECURSIVE SortDescending(_, _)
SortDescending(c, S) ==
    IF S = {} THEN {<<>>}
    ELSE LET firsts == {d \in S : \A e \in S : c[d].ingested_at >= c[e].ingested_at}
         IN UNION {{<<d>> \o s : s \in SortDescending(c, S \ {d})} : d \in firsts}

\* .sort("ingested_at", 1): every order of S ascending by ingested_at; the
\* order among equal timestamps is the store's and is left open
RECURSIVE SortAscending(_, _)
SortAscending(c, S) ==
    IF S = {} THEN {<<>>}
    ELSE LET firsts == {d \in S : \A e \in S : c[d].ingested_at <= c[e].ingested_at}
         IN UNION {{<<d>> \o s : s \in SortAscending(c, S \ {d})} : d \in firsts}

\* .limit(n): the first n documents; the store treats limit(0) as "no limit"
Limit(s, n) == IF n = 0 THEN s ELSE SubSeq(s, 1, Min(n, Len(s)))

\* mutant of OverCap: the comparison is not strict
AtOrOverCap(current_count, cap) == current_count >= cap

\* if current_count > max_items (line 26)
OverCap(current_count, cap) == current_count > cap

\* mutant of ExcessCount: one document short
ExcessCountShort(current_count, cap) == current_count - cap - 1

\* the argument of .limit()
ExcessCount(current_count, cap) == current_count - cap

\* mutant of PineconeBatch: a slice that runs one id into the next slice
PineconeBatchOverlapping(ids, k) ==
    SubSeq(ids, k + 1, Min(k + pinecone_batch_size + 1, Len(ids)))

\* delete_ids[i : i + pinecone_batch_size]
PineconeBatch(ids, k) == SubSeq(ids, k + 1, Min(k + pinecone_batch_size, Len(ids)))

\* collection.delete_many({"_id": {"$in": delete_ids}})
DeleteMany(c, ids) == [d \in DOMAIN c \ Range(ids) |-> c[d]]

\* mutant of AfterSelect: the Vector Index delete loop is left out
AfterSelectMongoOnly(ids) == IF ids # <<>> THEN "mongo_delete" ELSE "cleanup_return"

\* where the program goes once delete_ids is computed (line 33)
AfterSelect(ids) == IF ids # <<>> THEN "pinecone_delete" ELSE "cleanup_return"

\* entering cleanup_old_items(collection, index, cap) from caller r
EnterCleanup(r, cap) ==
    /\ pc' = "cleanup"
    /\ ret' = r
    /\ max_items' = cap
    /\ delete_ids' = <<>>
    /\ i' = 0
    /\ idxLog' = <<>>
    /\ mongoLog' = <<>>
    /\ coll0' = coll
    /\ index0' = index
    /\ calls' = calls + 1
    /\ event' = "none"

\* lines 25-34, 45-46: count, select, build delete_ids
CleanupSelect ==
    /\ event' = "none"
    /\ pc = "cleanup"
    /\ LET current_count == Cardinality(DOMAIN coll) IN
       IF OverCap(current_count, max_items)
       THEN \E s \in SortAscending(coll, FindNonClassic(coll)) :
               /\ delete_ids' = Limit(s, ExcessCount(current_count, max_items))
               /\ pc' = AfterSelect(delete_ids')
       ELSE /\ delete_ids' = <<>>
            /\ pc' = "cleanup_return"
    /\ i' = 0
    /\ UNCHANGED <<extraVars, storeVars, ret, max_items, idxLog, mongoLog, coll0, index0, calls, failed, ingestVars>>

\* lines 37-42: one iteration of the Pinecone delete loop
CleanupPineconeDelete ==
    /\ event' = "none"
    /\ pc = "pinecone_delete"
    /\ i < Len(delete_ids)
    /\ LET batch == PineconeBatch(delete_ids, i) IN
         /\ index' = index \ Range(batch)
         /\ idxLog' = Append(idxLog, batch)
    /\ i' = i + pinecone_batch_size
    /\ pc' = IF i' < Len(delete_ids) THEN "pinecone_delete" ELSE "mongo_delete"
    /\ UNCHANGED <<extraVars, coll, ret, max_items, delete_ids, mongoLog, coll0, index0, calls, failed, ingestVars>>

\* line 42 raising: the exception leaves cleanup_old_items and ends the program
CleanupPineconeDeleteFails ==
    /\ event' = "none"
    /\ pc = "pinecone_delete"
    /\ i < Len(delete_ids)
    /\ pc' = "crashed"
    /\ failed' = TRUE
    /\ UNCHANGED <<extraVars, storeVars, cleanupVars, ingestVars>>

\* line 44
CleanupMongoDelete ==
    /\ event' = "none"
    /\ pc = "mongo_delete"
    /\ coll' = DeleteMany(coll, delete_ids)
    /\ mongoLog' = Append(mongoLog, delete_ids)
    /\ pc' = "cleanup_return"
    /\ UNCHANGED <<extraVars, index, ret, max_items, delete_ids, i, idxLog, coll0, index0, calls, failed, ingestVars>>

\* line 44 raising
CleanupMongoDeleteFails ==
    /\ event' = "none"
    /\ pc = "mongo_delete"
    /\ pc' = "crashed"
    /\ failed' = TRUE
    /\ UNCHANGED <<extraVars, storeVars, cleanupVars, ingestVars>>

\* the locals of ingest_classic_papers before it is called
DiscInit ==
    /\ github_ids = {}
    /\ scholar_ids = {}
    /\ classic_ids_to_fetch = <<>>

\* fetch_classic_ids_from_semantic_scholar is not being followed step by step
ScholarIdle ==
    /\ scholar_pc = "not_called"
    /\ scholar_n = 0
    /\ classic_ids = {}
    /\ offset = 0
    /\ retries = 0
    /\ data = <<>>
    /\ requests = 0

\* perform_search is not being followed
SearchIdle ==
    /\ search_pc = "not_called"
    /\ queries = <<>>
    /\ all_results = <<>>
    /\ seen_ids = {}
    /\ qlog = <<>>
    /\ search_results = <<>>

\* the state of the parts of the program that have not started
ExtraInit ==
    /\ DiscInit
    /\ ScholarIdle
    /\ SearchIdle

\* the ingestion state before the ingestion phases have started
IngestInit ==
    /\ ExtraInit
    /\ processed_ids = {}
    /\ vectors_batch = <<>>
    /\ mongo_batch = <<>>
    /\ todo = {}
    /\ classic_ingested = 0
    /\ papers_ingested_count = 0
    /\ weeks_to_go_back = 0
    /\ found_in_chunk = 0
    /\ results = <<>>
    /\ clock = MaxInitAt + 1
    /\ staged = {}
    /\ event = "none"

(* ------------ cleanup_old_items exercised alone, any arguments --------- *)
InitCleanup ==
    /\ coll \in InitialStores
    /\ index = DOMAIN coll
    /\ pc = "cleanup"
    /\ ret = "unit"
    /\ max_items \in 0..MaxCap
    /\ delete_ids = <<>>
    /\ i = 0
    /\ idxLog = <<>>
    /\ mongoLog = <<>>
    /\ coll0 = coll
    /\ index0 = index
    /\ calls = 1
    /\ failed = FALSE
    /\ IngestInit

\* return to a caller that has nothing else to do
CleanupReturnUnit ==
    /\ event' = "none"
    /\ pc = "cleanup_return"
    /\ ret = "unit"
    /\ pc' = "idle"
    /\ UNCHANGED <<extraVars, storeVars, cleanupVars, failed, ingestVars>>

\* a further invocation with the same cap, no write in between
CleanupInvokeAgain ==
    /\ pc = "idle"
    /\ calls < MaxCalls
    /\ EnterCleanup("unit", max_items)
    /\ UNCHANGED <<extraVars, storeVars, failed, ingestVars>>

NextCleanup ==
    \/ CleanupSelect
    \/ CleanupPineconeDelete
    \/ CleanupPineconeDeleteFails
    \/ CleanupMongoDelete
    \/ CleanupMongoDeleteFails
    \/ CleanupReturnUnit
    \/ CleanupInvokeAgain

SpecCleanup == InitCleanup /\ [][NextCleanup]_vars

(* ------------------- the staged dual write (flush) --------------------- *)
\* mutant of UpsertVectors: the first staged vector is left out
UpsertVectorsButFirst(idx, batch) == idx \cup Range(Tail(batch))

\* index.upsert(vectors=vectors_batch)
UpsertVectors(idx, batch) == idx \cup Range(batch)

\* one UpdateOne({"_id": id}, {"$set": {..., "ingested_at", "type"}}, upsert=True)
UpdateOne(c, op) ==
    [d \in DOMAIN c \cup {op.id} |->
        IF d = op.id THEN [type |-> op.type, ingested_at |-> op.ingested_at] ELSE c[d]]

\* collection.bulk_write(mongo_batch): the operations in order
RECURSIVE BulkWrite(_, _)
BulkWrite(c, ops) ==
    IF ops = <<>> THEN c ELSE BulkWrite(UpdateOne(c, Head(ops)), Tail(ops))

\* the operation staged by classic mode (lines 171-184)
ClassicOp(doc_id, now) == [id |-> doc_id, type |-> "classic", ingested_at |-> now]

\* the operation staged by recent mode (lines 257-270)
RecentOp(doc_id, now) == [id |-> doc_id, type |-> "recent", ingested_at |-> now]

\* mutant of FlushDue: the flush waits for one item more than the batch size
FlushLate(batch) == Len(batch) > BATCH_SIZE

\* len(vectors_batch) >= BATCH_SIZE (lines 188, 276)
FlushDue(batch) == Len(batch) >= BATCH_SIZE

\* mutant of FinalFlushDue: a remainder below the batch size is not flushed
FinalFlushOnlyFull(batch) == Len(batch) >= BATCH_SIZE

\* if vectors_batch: (lines 194, 292)
FinalFlushDue(batch) == batch # <<>>

\* clean_id = paper.entry_id.split("/")[-1]: the repository answers a lookup,
\* by a versioned or an unversioned identifier, with the versioned identifier
Canon(c) == <<c[1], 1>>

(* ------------------ module level, lines 216-219 ------------------------ *)
Init ==
    /\ coll \in PipelineStores
    /\ index = DOMAIN coll
    /\ pc = "cleanup"
    /\ ret = "pre"
    /\ max_items = MAX_ITEMS
    /\ delete_ids = <<>>
    /\ i = 0
    /\ idxLog = <<>>
    /\ mongoLog = <<>>
    /\ coll0 = coll
    /\ index0 = index
    /\ calls = 1
    /\ failed = FALSE
    /\ IngestInit

\* mutant of SeedProcessedIds: the set starts empty
SeedNothing(c) == {}

\* line 217: processed_ids = set(doc["_id"] for doc in collection.find({}, {"_id": 1}))
SeedProcessedIds(c) == DOMAIN c

\* the first cleanup returns; line 217
CleanupReturnPre ==
    /\ pc = "cleanup_return"
    /\ ret = "pre"
    /\ processed_ids' = SeedProcessedIds(coll)
    /\ pc' = "classic_start"
    /\ event' = "none"
    /\ UNCHANGED <<extraVars, storeVars, cleanupVars, failed, batchVars, classicVars, recentVars,
                   clock, staged>>

(* ---------------- ingest_classic_papers (145-200) ---------------------- *)
\* what fetch_classic_ids_from_github(n) can return: list(classic_ids)[:n]
GithubResults(n) == {S \in SUBSET CandIds : Cardinality(S) <= n}

\* what fetch_classic_ids_from_semantic_scholar(n) can return: ArXiv external
\* ids, which carry no version, at most n of them
ScholarResults(n) == {S \in SUBSET BareIds : Cardinality(S) <= n}

\* every list that holds each element of S once: list(S) for a set S
RECURSIVE ListsOf(_)
ListsOf(S) ==
    IF S = {} THEN {<<>>}
    ELSE UNION {{<<x>> \o l : l \in ListsOf(S \ {x})} : x \in S}

\* mutant of MergedLists: the two lists are concatenated
ConcatenatedLists(g, s) == {a \o b : a \in ListsOf(g), b \in ListsOf(s)}

\* lines 149-151: list(set(github_ids) | set(scholar_ids)), in any order
MergedLists(g, s) == ListsOf(g \cup s)

\* line 152
NewClassicIds(combined, processed) == {cid \in combined : cid \notin processed}

\* lines 147-148: the two sources are asked; a returned list is kept as the set
\* of its elements (both are built by list() from a set)
ClassicDiscover ==
    /\ pc = "classic_start"
    /\ github_ids' \in GithubResults(CLASSIC_ITEMS)
    /\ scholar_ids' \in ScholarResults(CLASSIC_ITEMS \div 2)
    /\ pc' = "c_merge"
    /\ event' = "none"
    /\ UNCHANGED <<scholarVars, searchVars, storeVars, cleanupVars, failed, ingestVars,
                   classic_ids_to_fetch>>

\* lines 149-151
ClassicMerge ==
    /\ pc = "c_merge"
    /\ classic_ids_to_fetch' \in MergedLists(github_ids, scholar_ids)
    /\ pc' = "c_filter"
    /\ event' = "none"
    /\ UNCHANGED <<scholarVars, searchVars, storeVars, cleanupVars, failed, ingestVars,
                   github_ids, scholar_ids>>

\* lines 152-158; github_ids, scholar_ids and classic_ids_to_fetch are not read
\* again and are forgotten
ClassicFilter ==
    /\ pc = "c_filter"
    /\ LET new_classic_ids == NewClassicIds(Range(classic_ids_to_fetch), processed_ids)
       IN /\ todo' = new_classic_ids
          /\ pc' = IF new_classic_ids = {} THEN "classic_returned" ELSE "c_loop"
    /\ classic_ingested' = 0
    /\ vectors_batch' = <<>>
    /\ mongo_batch' = <<>>
    /\ staged' = {}
    /\ github_ids' = {}
    /\ scholar_ids' = {}
    /\ classic_ids_to_fetch' = <<>>
    /\ event' = "none"
    /\ UNCHANGED <<scholarVars, searchVars, storeVars, cleanupVars, failed, processed_ids,
                   recentVars, clock>>

\* lines 160-162: fetch_arxiv_metadata returned None
ClassicFetchFails ==
    /\ pc = "c_loop"
    /\ \E arxiv_id \in todo : todo' = todo \ {arxiv_id}
    /\ event' = "item_failed"
    /\ UNCHANGED <<extraVars, storeVars, pc, cleanupVars, failed, processed_ids, batchVars,
                   classic_ingested, recentVars, clock, staged>>

\* line 168 raising, caught at line 192
ClassicEmbedFails ==
    /\ pc = "c_loop"
    /\ \E arxiv_id \in todo : todo' = todo \ {arxiv_id}
    /\ event' = "item_failed"
    /\ UNCHANGED <<extraVars, storeVars, pc, cleanupVars, failed, processed_ids, batchVars,
                   classic_ingested, recentVars, clock, staged>>

\* lines 160-188: one item fetched, embedded and staged
ClassicStage ==
    /\ pc = "c_loop"
    /\ \E arxiv_id \in todo :
          LET doc_id == Canon(arxiv_id) IN
          /\ todo' = todo \ {arxiv_id}
          /\ vectors_batch' = Append(vectors_batch, doc_id)
          /\ mongo_batch' = Append(mongo_batch, ClassicOp(doc_id, clock))
          /\ processed_ids' = processed_ids \cup {doc_id}
          /\ staged' = staged \cup {doc_id}
    /\ classic_ingested' = classic_ingested + 1
    /\ clock' = clock + 1
    /\ pc' = IF FlushDue(vectors_batch') THEN "c_upsert" ELSE "c_loop"
    /\ event' = "none"
    /\ UNCHANGED <<extraVars, storeVars, cleanupVars, failed, recentVars>>

\* line 189
ClassicUpsert ==
    /\ pc = "c_upsert"
    /\ index' = UpsertVectors(index, vectors_batch)
    /\ pc' = "c_bulk_write"
    /\ event' = "none"
    /\ UNCHANGED <<extraVars, coll, cleanupVars, failed, ingestVars>>

\* line 189 raising, caught at line 192: the buffers keep their items
ClassicUpsertFails ==
    /\ pc = "c_upsert"
    /\ failed' = TRUE
    /\ pc' = "c_loop"
    /\ event' = "none"
    /\ UNCHANGED <<extraVars, storeVars, cleanupVars, ingestVars>>

\* lines 190-191
ClassicBulkWrite ==
    /\ pc = "c_bulk_write"
    /\ coll' = BulkWrite(coll, mongo_batch)
    /\ vectors_batch' = <<>>
    /\ mongo_batch' = <<>>
    /\ pc' = "c_loop"
    /\ event' = "none"
    /\ UNCHANGED <<extraVars, index, cleanupVars, failed, processed_ids, classicVars, recentVars,
                   clock, staged>>

\* line 190 raising after some of the operations, caught at line 192
ClassicBulkWriteFails ==
    /\ pc = "c_bulk_write"
    /\ \E k \in 0..(Len(mongo_batch) - 1) : coll' = BulkWrite(coll, SubSeq(mongo_batch, 1, k))
    /\ failed' = TRUE
    /\ pc' = "c_loop"
    /\ event' = "none"
    /\ UNCHANGED <<extraVars, index, cleanupVars, ingestVars>>

\* the for loop of line 159 is exhausted; line 194
ClassicLoopEnd ==
    /\ pc = "c_loop"
    /\ todo = {}
    /\ pc' = IF FinalFlushDue(vectors_batch) THEN "c_final_upsert" ELSE "classic_returned"
    /\ event' = "none"
    /\ UNCHANGED <<extraVars, storeVars, cleanupVars, failed, ingestVars>>

\* line 195
ClassicFinalUpsert ==
    /\ pc = "c_final_upsert"
    /\ index' = UpsertVectors(index, vectors_batch)
    /\ pc' = "c_final_bulk_write"
    /\ event' = "none"
    /\ UNCHANGED <<extraVars, coll, cleanupVars, failed, ingestVars>>

\* line 195 raising: nothing catches it
ClassicFinalUpsertFails ==
    /\ pc = "c_final_upsert"
    /\ failed' = TRUE
    /\ pc' = "crashed"
    /\ event' = "none"
    /\ UNCHANGED <<extraVars, storeVars, cleanupVars, ingestVars>>

\* line 196, then the return of line 200; the buffers are not cleared
ClassicFinalBulkWrite ==
    /\ pc = "c_final_bulk_write"
    /\ coll' = BulkWrite(coll, mongo_batch)
    /\ pc' = "classic_returned"
    /\ event' = "none"
    /\ UNCHANGED <<extraVars, index, cleanupVars, failed, ingestVars>>

\* line 196 raising after some of the operations
ClassicFinalBulkWriteFails ==
    /\ pc = "c_final_bulk_write"
    /\ \E k \in 0..(Len(mongo_batch) - 1) : coll' = BulkWrite(coll, SubSeq(mongo_batch, 1, k))
    /\ failed' = TRUE
    /\ pc' = "crashed"
    /\ event' = "none"
    /\ UNCHANGED <<extraVars, index, cleanupVars, ingestVars>>

(* ---------------- recent ingestion loop (222-295) ---------------------- *)
\* what client.results(search) can yield for one window: distinct papers,
\* newest first, at most max_results of them
WindowResults ==
    UNION {{r \in [1..n -> DocIds] : \A a, b \in 1..n : a # b => r[a] # r[b]} :
           n \in 0..max_results}

\* while papers_ingested_count < RECENT_ITEMS (line 229)
BelowTarget(count) == count < RECENT_ITEMS

\* if papers_ingested_count >= RECENT_ITEMS: break (line 280)
TargetReached(count) == count >= RECENT_ITEMS

\* mutant of NextWeek: the window does not move
SameWeek(w) == w

\* weeks_to_go_back += 1 (line 288)
NextWeek(w) == w + 1

\* if weeks_to_go_back > 156: break (line 289)
CeilingPassed(w) == w > MAX_WEEKS_BACK

\* ingest_classic_papers has returned (line 219); lines 222-227
RecentInit ==
    /\ pc = "classic_returned"
    /\ vectors_batch' = <<>>
    /\ mongo_batch' = <<>>
    /\ papers_ingested_count' = 0
    /\ weeks_to_go_back' = 0
    /\ staged' = {}
    /\ pc' = "r_while"
    /\ event' = "none"
    /\ UNCHANGED <<extraVars, storeVars, cleanupVars, failed, processed_ids, classicVars,
                   found_in_chunk, results, clock>>

\* lines 229-246: the loop test, and the search of one window
RecentWhile ==
    /\ pc = "r_while"
    /\ IF BelowTarget(papers_ingested_count)
       THEN /\ results' \in WindowResults
            /\ found_in_chunk' = 0
            /\ pc' = "r_for"
       ELSE /\ pc' = "r_final"
            /\ UNCHANGED <<extraVars, results, found_in_chunk>>
    /\ event' = "none"
    /\ UNCHANGED <<extraVars, storeVars, cleanupVars, failed, processed_ids, batchVars, classicVars,
                   papers_ingested_count, weeks_to_go_back, clock, staged>>

\* lines 247-250: the paper is already processed
RecentSkip ==
    /\ pc = "r_for"
    /\ results # <<>>
    /\ Head(results) \in processed_ids
    /\ results' = Tail(results)
    /\ event' = "none"
    /\ UNCHANGED <<extraVars, storeVars, pc, cleanupVars, failed, processed_ids, batchVars, classicVars,
                   papers_ingested_count, weeks_to_go_back, found_in_chunk, clock, staged>>

\* line 255 raising: caught at line 284, outside the for loop
RecentEmbedFails ==
    /\ pc = "r_for"
    /\ results # <<>>
    /\ Head(results) \notin processed_ids
    /\ pc' = "r_week_end"
    /\ event' = "item_failed"
    /\ UNCHANGED <<extraVars, storeVars, cleanupVars, failed, ingestVars>>

\* the result iterator raising (line 247): caught at line 284
RecentClientError ==
    /\ pc = "r_for"
    /\ pc' = "r_week_end"
    /\ event' = "none"
    /\ UNCHANGED <<extraVars, storeVars, cleanupVars, failed, ingestVars>>

\* lines 247-281: one paper embedded and staged
RecentStage ==
    /\ pc = "r_for"
    /\ results # <<>>
    /\ LET doc_id == Head(results) IN
          /\ doc_id \notin processed_ids
          /\ vectors_batch' = Append(vectors_batch, doc_id)
          /\ mongo_batch' = Append(mongo_batch, RecentOp(doc_id, clock))
          /\ processed_ids' = processed_ids \cup {doc_id}
          /\ staged' = staged \cup {doc_id}
    /\ results' = Tail(results)
    /\ papers_ingested_count' = papers_ingested_count + 1
    /\ found_in_chunk' = found_in_chunk + 1
    /\ clock' = clock + 1
    /\ pc' = IF FlushDue(vectors_batch') THEN "r_upsert"
             ELSE IF TargetReached(papers_ingested_count') THEN "r_week_end"
             ELSE "r_for"
    /\ event' = "none"
    /\ UNCHANGED <<extraVars, storeVars, cleanupVars, failed, classicVars, weeks_to_go_back>>

\* line 277
RecentUpsert ==
    /\ pc = "r_upsert"
    /\ index' = UpsertVectors(index, vectors_batch)
    /\ pc' = "r_bulk_write"
    /\ event' = "none"
    /\ UNCHANGED <<extraVars, coll, cleanupVars, failed, ingestVars>>

\* line 277 raising, caught at line 284: the buffers keep their items
RecentUpsertFails ==
    /\ pc = "r_upsert"
    /\ failed' = TRUE
    /\ pc' = "r_week_end"
    /\ event' = "none"
    /\ UNCHANGED <<extraVars, storeVars, cleanupVars, ingestVars>>

\* lines 278-281
RecentBulkWrite ==
    /\ pc = "r_bulk_write"
    /\ coll' = BulkWrite(coll, mongo_batch)
    /\ vectors_batch' = <<>>
    /\ mongo_batch' = <<>>
    /\ pc' = IF TargetReached(papers_ingested_count) THEN "r_week_end" ELSE "r_for"
    /\ event' = "none"
    /\ UNCHANGED <<extraVars, index, cleanupVars, failed, processed_ids, classicVars, recentVars,
                   clock, staged>>

\* line 278 raising after some of the operations, caught at line 284
RecentBulkWriteFails ==
    /\ pc = "r_bulk_write"
    /\ \E k \in 0..(Len(mongo_batch) - 1) : coll' = BulkWrite(coll, SubSeq(mongo_batch, 1, k))
    /\ failed' = TRUE
    /\ pc' = "r_week_end"
    /\ event' = "none"
    /\ UNCHANGED <<extraVars, index, cleanupVars, ingestVars>>

\* the result iterator is exhausted; lines 282-283
RecentResultsEnd ==
    /\ pc = "r_for"
    /\ results = <<>>
    /\ pc' = "r_week_end"
    /\ event' = "none"
    /\ UNCHANGED <<extraVars, storeVars, cleanupVars, failed, ingestVars>>

\* lines 288-291
RecentWeekEnd ==
    /\ pc = "r_week_end"
    /\ weeks_to_go_back' = NextWeek(weeks_to_go_back)
    /\ results' = <<>>
    /\ pc' = IF CeilingPassed(weeks_to_go_back') THEN "r_final" ELSE "r_while"
    /\ event' = "none"
    /\ UNCHANGED <<extraVars, storeVars, cleanupVars, failed, processed_ids, batchVars, classicVars,
                   papers_ingested_count, found_in_chunk, clock, staged>>

\* line 292
RecentLoopExit ==
    /\ pc = "r_final"
    /\ pc' = IF FinalFlushDue(vectors_batch) THEN "r_final_upsert" ELSE "r_done"
    /\ event' = "none"
    /\ UNCHANGED <<extraVars, storeVars, cleanupVars, failed, ingestVars>>

\* line 293
RecentFinalUpsert ==
    /\ pc = "r_final_upsert"
    /\ index' = UpsertVectors(index, vectors_batch)
    /\ pc' = "r_final_bulk_write"
    /\ event' = "none"
    /\ UNCHANGED <<extraVars, coll, cleanupVars, failed, ingestVars>>

\* line 293 raising: nothing catches it
RecentFinalUpsertFails ==
    /\ pc = "r_final_upsert"
    /\ failed' = TRUE
    /\ pc' = "crashed"
    /\ event' = "none"
    /\ UNCHANGED <<extraVars, storeVars, cleanupVars, ingestVars>>

\* line 294; the buffers are not cleared
RecentFinalBulkWrite ==
    /\ pc = "r_final_bulk_write"
    /\ coll' = BulkWrite(coll, mongo_batch)
    /\ pc' = "r_done"
    /\ event' = "none"
    /\ UNCHANGED <<extraVars, index, cleanupVars, failed, ingestVars>>

\* line 294 raising after some of the operations
RecentFinalBulkWriteFails ==
    /\ pc = "r_final_bulk_write"
    /\ \E k \in 0..(Len(mongo_batch) - 1) : coll' = BulkWrite(coll, SubSeq(mongo_batch, 1, k))
    /\ failed' = TRUE
    /\ pc' = "crashed"
    /\ event' = "none"
    /\ UNCHANGED <<extraVars, index, cleanupVars, ingestVars>>

\* lines 295-298: the second cleanup is called
RecentDone ==
    /\ pc = "r_done"
    /\ EnterCleanup("post", MAX_ITEMS)
    /\ UNCHANGED <<extraVars, storeVars, failed, ingestVars>>

\* the second cleanup returns; lines 299-302
CleanupReturnPost ==
    /\ pc = "cleanup_return"
    /\ ret = "post"
    /\ pc' = "done"
    /\ event' = "none"
    /\ UNCHANGED <<extraVars, storeVars, cleanupVars, failed, ingestVars>>

Next ==
    \/ CleanupSelect
    \/ CleanupPineconeDelete
    \/ CleanupPineconeDeleteFails
    \/ CleanupMongoDelete
    \/ CleanupMongoDeleteFails
    \/ CleanupReturnPre
    \/ ClassicDiscover
    \/ ClassicMerge
    \/ ClassicFilter
    \/ ClassicFetchFails
    \/ ClassicEmbedFails
    \/ ClassicStage
    \/ ClassicUpsert
    \/ ClassicUpsertFails
    \/ ClassicBulkWrite
    \/ ClassicBulkWriteFails
    \/ ClassicLoopEnd
    \/ ClassicFinalUpsert
    \/ ClassicFinalUpsertFails
    \/ ClassicFinalBulkWrite
    \/ ClassicFinalBulkWriteFails
    \/ RecentInit
    \/ RecentWhile
    \/ RecentSkip
    \/ RecentEmbedFails
    \/ RecentClientError
    \/ RecentStage
    \/ RecentUpsert
    \/ RecentUpsertFails
    \/ RecentBulkWrite
    \/ RecentBulkWriteFails
    \/ RecentResultsEnd
    \/ RecentWeekEnd
    \/ RecentLoopExit
    \/ RecentFinalUpsert
    \/ RecentFinalUpsertFails
    \/ RecentFinalBulkWrite
    \/ RecentFinalBulkWriteFails
    \/ RecentDone
    \/ CleanupReturnPost

Spec == Init /\ [][Next]_vars

(* ------- fetch_classic_ids_from_semantic_scholar (76-125), alone -------- *)
\* the largest argument n the function is called with
MaxN == 2

\* line 80, scaled from 100
limit == 2

\* line 81
max_retries == 3

\* line 120, scaled from 9900: the pages are at offsets 0, 2 and 4
max_offset == 4

\* an item of a page that has no ArXiv external id
NoArxivId == <<0, 0>>

\* what item.get("externalIds", {}).get("ArXiv") gives for one item of a page:
\* an unversioned arXiv id, or nothing
Items == BareIds \cup {NoArxivId}

\* data["data"] of a response: at most limit items
Pages == UNION {[1..k -> Items] : k \in 0..limit}

\* lines 109-114: the items of the page added until n ids are held
RECURSIVE AddItems(_, _, _)
AddItems(ids, items, n) ==
    IF items = <<>> \/ Cardinality(ids) >= n THEN ids
    ELSE IF Head(items) # NoArxivId /\ Head(items) \notin ids
         THEN AddItems(ids \cup {Head(items)}, Tail(items), n)
         ELSE AddItems(ids, Tail(items), n)

\* mutant of NextOffset: the next request asks for the same page
SameOffset(o) == o

\* line 118
NextOffset(o) == o + limit

\* the pipeline is not running while the function is followed alone
PipelineIdle ==
    /\ pc = "idle"
    /\ ret = "unit"
    /\ max_items = MAX_ITEMS
    /\ delete_ids = <<>>
    /\ i = 0
    /\ idxLog = <<>>
    /\ mongoLog = <<>>
    /\ coll0 = coll
    /\ index0 = index
    /\ calls = 1
    /\ failed = FALSE
    /\ processed_ids = {}
    /\ vectors_batch = <<>>
    /\ mongo_batch = <<>>
    /\ todo = {}
    /\ classic_ingested = 0
    /\ papers_ingested_count = 0
    /\ weeks_to_go_back = 0
    /\ found_in_chunk = 0
    /\ results = <<>>
    /\ clock = MaxInitAt + 1
    /\ staged = {}
    /\ event = "none"
    /\ DiscInit

\* lines 76-83: the function is entered with some n
InitScholar ==
    /\ coll \in {c \in InitialStores : DOMAIN c = {}}
    /\ index = {}
    /\ PipelineIdle
    /\ SearchIdle
    /\ scholar_pc = "s_while"
    /\ scholar_n \in 0..MaxN
    /\ classic_ids = {}
    /\ offset = 0
    /\ retries = 0
    /\ data = <<>>
    /\ requests = 0

\* lines 84-91: the test of the outer loop and the start of a page
ScholarWhile ==
    /\ scholar_pc = "s_while"
    /\ IF Cardinality(classic_ids) < scholar_n
       THEN /\ retries' = 0
            /\ data' = <<>>
            /\ requests' = 0
            /\ scholar_pc' = "s_request"
       ELSE /\ scholar_pc' = "s_return"
            /\ UNCHANGED <<retries, data, requests>>
    /\ UNCHANGED <<pipelineVars, storeVars, searchVars, scholar_n, classic_ids, offset>>

\* lines 92-98: the request is answered with status 429
ScholarRateLimited ==
    /\ scholar_pc = "s_request"
    /\ retries < max_retries
    /\ requests' = requests + 1
    /\ retries' = retries + 1
    /\ UNCHANGED <<pipelineVars, storeVars, searchVars, scholar_pc, scholar_n, classic_ids, offset, data>>

\* lines 92-94, 99-100 raising, 102-105: the request or the decoding of its answer fails
ScholarRequestError ==
    /\ scholar_pc = "s_request"
    /\ retries < max_retries
    /\ requests' = requests + 1
    /\ retries' = retries + 1
    /\ UNCHANGED <<pipelineVars, storeVars, searchVars, scholar_pc, scholar_n, classic_ids, offset, data>>

\* lines 92-94, 99-101: the request is answered with a page
ScholarRequestOk ==
    /\ scholar_pc = "s_request"
    /\ retries < max_retries
    /\ requests' = requests + 1
    /\ data' \in Pages
    /\ scholar_pc' = "s_check"
    /\ UNCHANGED <<pipelineVars, storeVars, searchVars, scholar_n, classic_ids, offset, retries>>

\* line 92: the test of the retry loop fails
ScholarRetriesExhausted ==
    /\ scholar_pc = "s_request"
    /\ retries >= max_retries
    /\ scholar_pc' = "s_check"
    /\ UNCHANGED <<pipelineVars, storeVars, searchVars, scholar_n, classic_ids, offset, retries, data, requests>>

\* lines 106-108
ScholarNoData ==
    /\ scholar_pc = "s_check"
    /\ data = <<>>
    /\ scholar_pc' = "s_return"
    /\ UNCHANGED <<pipelineVars, storeVars, searchVars, scholar_n, classic_ids, offset, retries, data, requests>>

\* lines 109-122
ScholarItems ==
    /\ scholar_pc = "s_check"
    /\ data # <<>>
    /\ classic_ids' = AddItems(classic_ids, data, scholar_n)
    /\ IF Cardinality(classic_ids') >= scholar_n
       THEN scholar_pc' = "s_return" /\ offset' = offset
       ELSE /\ offset' = NextOffset(offset)
            /\ scholar_pc' = IF offset' > max_offset THEN "s_return" ELSE "s_while"
    /\ UNCHANGED <<pipelineVars, storeVars, searchVars, scholar_n, retries, data, requests>>

NextScholar ==
    \/ ScholarWhile
    \/ ScholarRateLimited
    \/ ScholarRequestError
    \/ ScholarRequestOk
    \/ ScholarRetriesExhausted
    \/ ScholarNoData
    \/ ScholarItems

SpecScholar == InitScholar /\ [][NextScholar]_vars

\* every call of requests.get and of time.sleep returns
FairSpecScholar == SpecScholar /\ WF_vars(NextScholar)

(* ------------------ perform_search (src/app.py 64-104) ------------------ *)
\* the most queries one search is given
MaxQueries == 2

\* line 72, scaled from 15
top_k == 2

\* line 104, scaled from 25
result_budget == 2

\* the query texts: the embedding places a text at one of the papers
Texts == 1..NPapers

\* the score the Vector Index gives vector d for the query text t: higher for nearer
Similarity(t, d) == NPapers - (IF t >= d[1] THEN t - d[1] ELSE d[1] - t)

\* lines 71-78: the possible sets of matches of index.query, the top_k nearest
\* vectors of the index (among equally near ones the choice is the index's)
TopK(t, idx) ==
    {S \in SUBSET idx :
        /\ Cardinality(S) = Min(top_k, Cardinality(idx))
        /\ \A a \in S, b \in idx \ S : Similarity(t, a) >= Similarity(t, b)}

\* line 83: collection.find({"_id": {"$in": result_ids}}), in the store's order
Find(c, result_ids) == ListsOf(result_ids \cap DOMAIN c)

\* mutant of NotSeen: every paper is taken as new
AlwaysNew(seen, paper_id) == TRUE

\* line 87
NotSeen(seen, paper_id) == paper_id \notin seen

\* lines 85-99: the entries appended for the records found
RECURSIVE Merge(_, _, _, _)
Merge(acc, seen, metas, t) ==
    IF metas = <<>> THEN acc
    ELSE IF NotSeen(seen, Head(metas))
         THEN Merge(Append(acc, [id |-> Head(metas), score |-> Similarity(t, Head(metas))]),
                    seen \cup {Head(metas)}, Tail(metas), t)
         ELSE Merge(acc, seen, Tail(metas), t)

\* an entry put after the entries of a score at least its own
RECURSIVE InsertByScore(_, _)
InsertByScore(entry, sorted) ==
    IF sorted = <<>> THEN <<entry>>
    ELSE IF Head(sorted).score >= entry.score
         THEN <<Head(sorted)>> \o InsertByScore(entry, Tail(sorted))
         ELSE <<entry>> \o sorted

\* mutant of SortByScore: the list is left in the order of merging
Unsorted(entries) == entries

\* line 103: the stable sort by score, highest first
RECURSIVE SortByScore(_)
SortByScore(entries) ==
    IF entries = <<>> THEN <<>>
    ELSE InsertByScore(entries[Len(entries)],
                       SortByScore(SubSeq(entries, 1, Len(entries) - 1)))

\* line 104: all_results[:25]
Truncate(entries) == SubSeq(entries, 1, Min(result_budget, Len(entries)))

\* mutant of AfterQueryError: the remaining queries are dropped
AbortQueries(log, t) ==
    log \o [k \in 1..(Len(queries) - Len(log)) |-> [query |-> t, outcome |-> "failed", ids |-> {}]]

\* lines 100-101: the error is reported and the loop goes on with the next query
AfterQueryError(log, t) == Append(log, [query |-> t, outcome |-> "failed", ids |-> {}])

\* the stores a search can find: every document but at most one has a record;
\* the type of a record plays no part in the merging and is "recent" throughout
SearchStores ==
    {c \in PipelineStores :
        /\ Cardinality(DocIds \ DOMAIN c) <= 1
        /\ \A d \in DOMAIN c : c[d].type = "recent"}

\* lines 64-66: perform_search is entered
InitSearch ==
    /\ coll \in SearchStores
    /\ index \in {{}, DocIds}
    /\ PipelineIdle
    /\ ScholarIdle
    /\ search_pc = "s_for"
    /\ queries \in UNION {[1..k -> Texts] : k \in 0..MaxQueries}
    /\ all_results = <<>>
    /\ seen_ids = {}
    /\ qlog = <<>>
    /\ search_results = <<>>

\* the query the loop of line 68 handles next
Query == queries[Len(qlog) + 1]

\* lines 68-99: one query answered and its matches merged
SearchMerge ==
    /\ search_pc = "s_for"
    /\ Len(qlog) < Len(queries)
    /\ \E result_ids \in TopK(Query, index) :
          /\ result_ids # {}
          /\ \E papers_metadata \in Find(coll, result_ids) :
                /\ all_results' = Merge(all_results, seen_ids, papers_metadata, Query)
                /\ seen_ids' = seen_ids \cup Range(papers_metadata)
          /\ qlog' = Append(qlog, [query |-> Query, outcome |-> "merged", ids |-> result_ids])
    /\ UNCHANGED <<pipelineVars, storeVars, scholarVars, search_pc, queries, search_results>>

\* lines 68-81: the index has no match
SearchNoMatches ==
    /\ search_pc = "s_for"
    /\ Len(qlog) < Len(queries)
    /\ {} \in TopK(Query, index)
    /\ qlog' = Append(qlog, [query |-> Query, outcome |-> "no_matches", ids |-> {}])
    /\ UNCHANGED <<pipelineVars, storeVars, scholarVars, search_pc, queries, all_results,
                   seen_ids, search_results>>

\* line 70 raising, caught at line 100
SearchEncodeFails ==
    /\ search_pc = "s_for"
    /\ Len(qlog) < Len(queries)
    /\ qlog' = AfterQueryError(qlog, Query)
    /\ UNCHANGED <<pipelineVars, storeVars, scholarVars, search_pc, queries, all_results,
                   seen_ids, search_results>>

\* line 71 raising, caught at line 100
SearchIndexQueryFails ==
    /\ search_pc = "s_for"
    /\ Len(qlog) < Len(queries)
    /\ qlog' = AfterQueryError(qlog, Query)
    /\ UNCHANGED <<pipelineVars, storeVars, scholarVars, search_pc, queries, all_results,
                   seen_ids, search_results>>

\* line 83 raising after the index has answered, caught at line 100
SearchFindFails ==
    /\ search_pc = "s_for"
    /\ Len(qlog) < Len(queries)
    /\ \E result_ids \in TopK(Query, index) :
          /\ result_ids # {}
          /\ qlog' = [AfterQueryError(qlog, Query) EXCEPT ![Len(qlog) + 1].ids = result_ids]
    /\ UNCHANGED <<pipelineVars, storeVars, scholarVars, search_pc, queries, all_results,
                   seen_ids, search_results>>

\* line 103
SearchSort ==
    /\ search_pc = "s_for"
    /\ Len(qlog) >= Len(queries)
    /\ all_results' = SortByScore(all_results)
    /\ search_pc' = "s_sorted"
    /\ UNCHANGED <<pipelineVars, storeVars, scholarVars, queries, seen_ids, qlog, search_results>>

\* line 104
SearchReturn ==
    /\ search_pc = "s_sorted"
    /\ search_results' = Truncate(all_results)
    /\ search_pc' = "s_returned"
    /\ UNCHANGED <<pipelineVars, storeVars, scholarVars, queries, all_results, seen_ids, qlog>>

NextSearch ==
    \/ SearchMerge
    \/ SearchNoMatches
    \/ SearchEncodeFails
    \/ SearchIndexQueryFails
    \/ SearchFindFails
    \/ SearchSort
    \/ SearchReturn

SpecSearch == InitSearch /\ [][NextSearch]_vars

\* every call made by perform_search returns or raises
FairSpecSearch == SpecSearch /\ WF_vars(NextSearch)

(* ============================ properties =============================== *)
\* every id passed to index.delete or to collection.delete_many by this invocation
LoggedDeleteIds ==
    UNION ({Range(idxLog[k]) : k \in 1..Len(idxLog)}
           \cup {Range(mongoLog[k]) : k \in 1..Len(mongoLog)})

\* cleanup_old_items has run to completion, every store call succeeding
CleanupCompleted == pc \in {"cleanup_return", "idle"} /\ ~failed

\* the documents that were not classic when this invocation started
NonClassic0 == {d \in DOMAIN coll0 : coll0[d].type # "classic"}

\* the documents this invocation has removed from the Metadata Store
Removed == DOMAIN coll0 \ DOMAIN coll

\* C1: whatever the store, the ages and max_items, no id of a classic document
\* is passed to the Vector Index delete or to the Metadata Store delete, and
\* every classic document keeps its record and its vector.
C1_ClassicNeverDeleted ==
    /\ \A d \in LoggedDeleteIds : d \in DOMAIN coll0 /\ coll0[d].type # "classic"
    /\ \A d \in DOMAIN coll0 :
          coll0[d].type = "classic" => d \in DOMAIN coll /\ d \in index /\ coll[d] = coll0[d]

\* a deletion has happened although a classic document is older than every deleted one
C1_Witness ==
    /\ mongoLog # <<>>
    /\ \E d \in DOMAIN coll0 :
          /\ coll0[d].type = "classic"
          /\ \A e \in LoggedDeleteIds : coll0[d].ingested_at < coll0[e].ingested_at

\* C2: after cleanup_old_items has run to completion, the document count is at
\* most max_items or no non-classic document is left.
C2_CapConvergence ==
    CleanupCompleted =>
        \/ Cardinality(DOMAIN coll) <= max_items
        \/ \A d \in DOMAIN coll : coll[d].type = "classic"

\* a completed run that deleted down to exactly the cap, non-classic documents remaining
C2_Witness ==
    /\ CleanupCompleted
    /\ mongoLog # <<>>
    /\ Cardinality(DOMAIN coll) = max_items
    /\ \E d \in DOMAIN coll : coll[d].type # "classic"

\* C3: when the count exceeds max_items, a completed run has removed exactly
\* min(count - max_items, number of non-classic documents) documents, all of them
\* non-classic and none newer than a non-classic document that stays, from both
\* stores, and has changed nothing else.
C3_OldestNonClassicDeleted ==
    (CleanupCompleted /\ Cardinality(DOMAIN coll0) > max_items) =>
        /\ Cardinality(Removed) =
              Min(Cardinality(DOMAIN coll0) - max_items, Cardinality(NonClassic0))
        /\ Removed \subseteq NonClassic0
        /\ \A d \in Removed : \A r \in NonClassic0 \ Removed :
              coll0[d].ingested_at <= coll0[r].ingested_at
        /\ DOMAIN coll \subseteq DOMAIN coll0
        /\ \A d \in DOMAIN coll : coll[d] = coll0[d]
        /\ index = index0 \ Removed

\* the scenario of the specification, scaled: 3 documents, 1 classic, cap 2: the
\* one oldest non-classic document is gone and 2 documents are left
C3_Witness ==
    /\ CleanupCompleted
    /\ Cardinality(DOMAIN coll0) = 3
    /\ Cardinality(NonClassic0) = 2
    /\ max_items = 2
    /\ Cardinality(Removed) = 1
    /\ Cardinality(DOMAIN coll) = 2
    /\ \A d \in Removed : \A r \in NonClassic0 \ Removed :
          coll0[d].ingested_at < coll0[r].ingested_at

\* C4: with the count at most max_items, or every document classic, an
\* invocation issues no delete and leaves both stores as they were; and so does
\* an invocation that directly follows a completed one.
C4_NoOpWhenNothingOverCap ==
    (\/ Cardinality(DOMAIN coll0) <= max_items
     \/ \A d \in DOMAIN coll0 : coll0[d].type = "classic"
     \/ calls >= 2)
    => /\ idxLog = <<>>
       /\ mongoLog = <<>>
       /\ coll = coll0
       /\ index = index0

\* a second invocation has completed on a store that is still over the cap,
\* every document in it being classic
C4_Witness ==
    /\ CleanupCompleted
    /\ calls = 2
    /\ pc = "idle"
    /\ Cardinality(DOMAIN coll) > max_items
    /\ DOMAIN coll # {}

\* C5: the Metadata Store delete comes after every Vector Index delete of the
\* invocation and targets the ids those deletes targeted; so at any point, an
\* interruption included, a selected id that still has a vector still has its
\* metadata record.
C5_VectorDeleteFirst ==
    /\ mongoLog # <<>> =>
          /\ Len(mongoLog) = 1
          /\ i >= Len(delete_ids)
          /\ Range(mongoLog[1]) = UNION {Range(idxLog[k]) : k \in 1..Len(idxLog)}
          /\ Range(mongoLog[1]) = Range(delete_ids)
    /\ \A d \in Range(delete_ids) : d \in index => d \in DOMAIN coll

\* an interruption between the two phases: vectors deleted, the records still there
C5_Witness ==
    /\ pc = "crashed"
    /\ idxLog # <<>>
    /\ mongoLog = <<>>
    /\ \E d \in Range(delete_ids) : d \in DOMAIN coll /\ d \notin index

(* --------------------------- the pipeline ------------------------------ *)
\* the ids of the staged metadata operations
MongoBatchIds == {mongo_batch[k].id : k \in 1..Len(mongo_batch)}

\* what C6 asks of one step of the program
TypeKeptByStep ==
    \A d \in DOMAIN coll' :
       /\ d \in DOMAIN coll => coll'[d].type = coll[d].type
       /\ (d \notin DOMAIN coll \/ coll'[d] # coll[d]) =>
             /\ \E k \in 1..Len(mongo_batch) :
                   mongo_batch[k].id = d /\ mongo_batch[k].ingested_at = coll'[d].ingested_at
             /\ (d \in DOMAIN coll /\ ~failed') => coll'[d].ingested_at >= coll[d].ingested_at

\* C6: a write to an id that already has a document leaves the document's type
\* as it was (set once, at first ingestion) and sets ingested_at to the
\* timestamp of the latest operation written for that id.
C6_TypeSetOnce == [][TypeKeptByStep]_vars

\* a flush is between its two store calls
FlushInProgress ==
    pc \in {"c_bulk_write", "c_final_bulk_write", "r_bulk_write", "r_final_bulk_write"}

\* a retention deletion is between its first and its last store call
DeletionInProgress == pc \in {"pinecone_delete", "mongo_delete"}

\* C7: where no flush and no retention deletion is in progress and no store call
\* has failed, the Metadata Store and the Vector Index hold the same ids.
C7_StoresAgree ==
    (~failed /\ ~FlushInProgress /\ ~DeletionInProgress) => DOMAIN coll = index

\* the run has ended after flushes and a retention deletion, the stores agreeing
C7_Witness ==
    /\ pc = "done"
    /\ ~failed
    /\ staged # {}
    /\ mongoLog # <<>>
    /\ DOMAIN coll = index
    /\ coll # coll0

\* C8: when a mode's run has ended, every store call having succeeded, nothing
\* staged is unwritten: every id staged by the mode, and every item still in the
\* buffers, is in the Vector Index and in the Metadata Store.
C8_NoStagedWriteDropped ==
    (~failed /\ pc \in {"classic_returned", "r_done"}) =>
        /\ staged \subseteq index
        /\ staged \subseteq DOMAIN coll
        /\ Range(vectors_batch) \subseteq index
        /\ MongoBatchIds \subseteq DOMAIN coll

\* recent mode has ended after one full batch and a remainder of one item
C8_Witness ==
    /\ pc = "r_done"
    /\ ~failed
    /\ Cardinality(staged) = BATCH_SIZE + 1
    /\ Len(vectors_batch) = 1
    /\ staged \subseteq index

\* what C9 asks of one step of the program
ItemFailureStep ==
    event' = "item_failed" =>
       /\ processed_ids' = processed_ids
       /\ vectors_batch' = vectors_batch
       /\ mongo_batch' = mongo_batch
       /\ staged' = staged
       /\ pc = "c_loop" => pc' = "c_loop" /\ todo' \subseteq todo
       /\ (pc = "r_for" /\ Tail(results) # <<>>) => pc' = "r_for" /\ results' = Tail(results)

\* C9: a per-item failure skips that item only: the Processed-ID Set and the
\* staged items are as before, and the loop goes on with the items that remain.
C9_ItemFailureSkipsOnlyItem == [][ItemFailureStep]_vars

\* the stores the first cleanup leaves as they are
StoresWithinCap == {c \in PipelineStores : ~OverCap(Cardinality(DOMAIN c), MAX_ITEMS)}

\* recent mode from the point where ingest_classic_papers has returned without
\* a new candidate (line 155): the first cleanup had nothing to delete and the
\* Processed-ID Set is the seed of line 217
InitRecent ==
    /\ coll \in StoresWithinCap
    /\ index = DOMAIN coll
    /\ pc = "classic_returned"
    /\ ret = "pre"
    /\ max_items = MAX_ITEMS
    /\ delete_ids = <<>>
    /\ i = 0
    /\ idxLog = <<>>
    /\ mongoLog = <<>>
    /\ coll0 = coll
    /\ index0 = index
    /\ calls = 1
    /\ failed = FALSE
    /\ processed_ids = SeedProcessedIds(coll)
    /\ vectors_batch = <<>>
    /\ mongo_batch = <<>>
    /\ todo = {}
    /\ classic_ingested = 0
    /\ papers_ingested_count = 0
    /\ weeks_to_go_back = 0
    /\ found_in_chunk = 0
    /\ results = <<>>
    /\ clock = MaxInitAt + 1
    /\ staged = {}
    /\ event = "none"
    /\ ExtraInit

NextRecent ==
    \/ RecentInit
    \/ RecentWhile
    \/ RecentSkip
    \/ RecentEmbedFails
    \/ RecentClientError
    \/ RecentStage
    \/ RecentUpsert
    \/ RecentUpsertFails
    \/ RecentBulkWrite
    \/ RecentBulkWriteFails
    \/ RecentResultsEnd
    \/ RecentWeekEnd
    \/ RecentLoopExit
    \/ RecentFinalUpsert
    \/ RecentFinalUpsertFails
    \/ RecentFinalBulkWrite
    \/ RecentFinalBulkWriteFails
    \/ RecentDone
    \/ CleanupSelect
    \/ CleanupPineconeDelete
    \/ CleanupPineconeDeleteFails
    \/ CleanupMongoDelete
    \/ CleanupMongoDeleteFails
    \/ CleanupReturnPost

\* the scheduling of a sequential program: it keeps running while it has a
\* next step
FairSpecRecent == InitRecent /\ [][NextRecent]_vars /\ WF_vars(NextRecent)

\* the positions inside the while loop of recent mode
RecentLoopPcs == {"r_while", "r_for", "r_upsert", "r_bulk_write", "r_week_end"}

\* what C10 asks of one step taken inside the while loop
RecentLoopStep ==
    pc \in RecentLoopPcs =>
       /\ pc' \in RecentLoopPcs \cup {"r_final"}
       /\ pc \in {"r_for", "r_upsert", "r_bulk_write"} =>
             pc' \in {"r_for", "r_upsert", "r_bulk_write", "r_week_end"}
       /\ IF pc = "r_week_end"
          THEN /\ weeks_to_go_back' = weeks_to_go_back + 1
               /\ pc' = "r_final" <=> (weeks_to_go_back' > MAX_WEEKS_BACK)
          ELSE weeks_to_go_back' = weeks_to_go_back
       /\ (pc = "r_while" /\ papers_ingested_count >= RECENT_ITEMS) => pc' = "r_final"

\* C10: recent mode terminates; the window index changes only at the end of an
\* iteration, by exactly one week, however the iteration went; no paper is
\* handled once recent_target is reached or the ceiling is passed; and the loop
\* is left towards the final flush, never by an error.
C10_RecentTerminates ==
    /\ (pc = "r_while") ~> (pc = "r_final")
    /\ [](pc \in RecentLoopPcs => papers_ingested_count <= RECENT_ITEMS)
    /\ [](pc \in {"r_for", "r_upsert", "r_bulk_write"} => weeks_to_go_back <= MAX_WEEKS_BACK)
    /\ [](pc = "r_for" => papers_ingested_count < RECENT_ITEMS)
    /\ [][RecentLoopStep]_vars

\* every window came back with nothing new and the ceiling ended the loop
C10_Witness ==
    /\ pc = "r_final"
    /\ ~failed
    /\ weeks_to_go_back = MAX_WEEKS_BACK + 1
    /\ papers_ingested_count = 0
    /\ found_in_chunk = 0

\* the positions of ingest_classic_papers from the first item on
ClassicLoopPcs ==
    {"c_loop", "c_upsert", "c_bulk_write", "c_final_upsert", "c_final_bulk_write",
     "classic_returned"}

\* C11: the papers classic mode has staged are never more than CLASSIC_ITEMS and
\* the papers recent mode has staged are never more than RECENT_ITEMS.
C11_TargetsBoundStaging ==
    /\ pc \in ClassicLoopPcs => Cardinality(staged) <= CLASSIC_ITEMS
    /\ papers_ingested_count <= RECENT_ITEMS

\* C12: the merged candidate list holds every id either source returned, each
\* exactly once, and no other id.
C12_MergeIsUnion ==
    pc = "c_filter" =>
        /\ Range(classic_ids_to_fetch) = github_ids \cup scholar_ids
        /\ \A a, b \in 1..Len(classic_ids_to_fetch) :
              a # b => classic_ids_to_fetch[a] # classic_ids_to_fetch[b]

\* two ids from the first source and one from the second that the first also
\* returned merge to a list of 2 ids
C12_Witness ==
    /\ pc = "c_filter"
    /\ Cardinality(github_ids) = 2
    /\ Cardinality(scholar_ids) = 1
    /\ scholar_ids \subseteq github_ids
    /\ Len(classic_ids_to_fetch) = 2

(* --------------------- the Vector Index sub-batches --------------------- *)
\* the sub-batches of a log, one after the other
RECURSIVE Flatten(_)
Flatten(log) == IF log = <<>> THEN <<>> ELSE Head(log) \o Flatten(Tail(log))

\* C18: every sub-batch sent to the Vector Index holds at least one and at most
\* pinecone_batch_size ids; the sub-batches sent so far are, in order, the start
\* of delete_ids, and once the loop is over they are delete_ids: every selected
\* id is in exactly one sub-batch.
C18_SubBatchesPartition ==
    /\ \A k \in 1..Len(idxLog) :
          Len(idxLog[k]) >= 1 /\ Len(idxLog[k]) <= pinecone_batch_size
    /\ Len(Flatten(idxLog)) <= Len(delete_ids)
    /\ Flatten(idxLog) = SubSeq(delete_ids, 1, Len(Flatten(idxLog)))
    /\ pc \in {"mongo_delete", "cleanup_return"} => Flatten(idxLog) = delete_ids

\* the selection took a full sub-batch and a shorter last one
C18_Witness ==
    /\ pc = "mongo_delete"
    /\ Len(idxLog) = 2
    /\ Len(idxLog[1]) = pinecone_batch_size
    /\ Len(idxLog[2]) < pinecone_batch_size

(* ------------------------- flushing in batches -------------------------- *)
\* the ids of the staged metadata operations, in staging order
MongoBatchSeq == [k \in 1..Len(mongo_batch) |-> mongo_batch[k].id]

\* a flush at the batch size is between its two store calls
ThresholdFlushInProgress == pc \in {"c_bulk_write", "r_bulk_write"}

\* what C19 asks of every state reached with no store call failing
BatchesBounded ==
    ~failed =>
        /\ Len(vectors_batch) <= BATCH_SIZE
        /\ Len(mongo_batch) <= BATCH_SIZE
        /\ MongoBatchSeq = vectors_batch
        /\ ~DeletionInProgress => (staged \cap DOMAIN coll) \subseteq index
        /\ ThresholdFlushInProgress => Range(vectors_batch) \subseteq index

\* what C19 asks of one step: an item is staged only below the batch size, and
\* the metadata bulk write of a flush at the batch size empties both buffers
FlushStep ==
    ~failed' =>
        /\ Len(vectors_batch') > Len(vectors_batch) => Len(vectors_batch) < BATCH_SIZE
        /\ Len(vectors_batch') = BATCH_SIZE /\ Len(vectors_batch) < BATCH_SIZE =>
              pc' \in {"c_upsert", "r_upsert"}
        /\ ThresholdFlushInProgress => vectors_batch' = <<>> /\ mongo_batch' = <<>>
        /\ FlushInProgress => (DOMAIN coll' \ DOMAIN coll) \subseteq index

\* C19: with no store call failing, the buffers reaching BATCH_SIZE are flushed
\* before another item is staged, the vector upsert first, the metadata bulk
\* write second, the buffers emptied third; the buffers never hold more than
\* BATCH_SIZE items, hold the same ids, and every id ingestion writes to the
\* Metadata Store is in the Vector Index when it is written and stays there
\* until a retention deletion takes it.
C19_FlushAtBatchSize == [](BatchesBounded) /\ [][FlushStep]_vars

\* a flush at the batch size has upserted its vectors and not yet written metadata
C19_Witness ==
    /\ ~failed
    /\ ThresholdFlushInProgress
    /\ Len(vectors_batch) = BATCH_SIZE
    /\ Range(vectors_batch) \subseteq index
    /\ Range(vectors_batch) \cap DOMAIN coll = {}

(* ------------------------ the Processed-ID Set -------------------------- *)
\* the positions between the seeding of line 217 and the second cleanup of line 298
IngestionPhasePcs ==
    {"classic_start", "c_merge", "c_filter"} \cup ClassicLoopPcs \cup
    {"r_while", "r_for", "r_upsert", "r_bulk_write", "r_week_end", "r_final",
     "r_final_upsert", "r_final_bulk_write", "r_done"}

\* every processed id is stored or staged
ProcessedStoredOrStaged ==
    pc \in IngestionPhasePcs => processed_ids \subseteq (DOMAIN coll \cup MongoBatchIds)

\* what C20 asks of one step: the set loses no id, and the step that seeds it
\* makes it the id set of the Metadata Store
ProcessedStep ==
    /\ processed_ids \subseteq processed_ids'
    /\ (pc = "cleanup_return" /\ pc' = "classic_start") => processed_ids' = DOMAIN coll'

\* C20: the Processed-ID Set is the id set of the Metadata Store when it is
\* seeded, never loses an id, and during the ingestion phases each of its ids is
\* in the Metadata Store or in the staged, unflushed batch.
C20_ProcessedIds == [](ProcessedStoredOrStaged) /\ [][ProcessedStep]_vars

\* a seeded id is stored while a newly staged one is only in the batch
C20_Witness ==
    /\ pc \in IngestionPhasePcs
    /\ \E d \in processed_ids : d \in DOMAIN coll /\ d \notin MongoBatchIds
    /\ \E d \in processed_ids : d \notin DOMAIN coll /\ d \in MongoBatchIds

(* ------------------------ the ranked-API source ------------------------- *)
\* at most n ids, at most max_retries requests per page, no request above the
\* offset ceiling
ScholarBounded ==
    /\ Cardinality(classic_ids) <= scholar_n
    /\ requests <= max_retries
    /\ scholar_pc = "s_request" => offset <= max_offset

\* C13: the ranked-API source reaches its return with at most n ids; it issues at
\* most max_retries requests for a page, whatever the answers, and requests no
\* offset above the ceiling.
C13_ScholarTerminates == [](ScholarBounded) /\ <>(scholar_pc = "s_return")

\* the function returns n ids after a later page that needed max_retries requests
C13_Witness ==
    /\ scholar_pc = "s_return"
    /\ scholar_n = MaxN
    /\ Cardinality(classic_ids) = scholar_n
    /\ offset > 0
    /\ requests = max_retries

\* what C14 asks of the step taken after the retries of a page are exhausted
\* below the offset ceiling: the ids are kept and the next page is started
ExhaustedPageStep ==
    (scholar_pc = "s_check" /\ retries >= max_retries /\ NextOffset(offset) <= max_offset) =>
        /\ classic_ids' = classic_ids
        /\ offset' = NextOffset(offset)
        /\ scholar_pc' = "s_while"

\* C14: when the retries of a page are exhausted, the ids collected so far are
\* kept and paging goes on with the next offset.
C14_ExhaustedPageSkipped == [][ExhaustedPageStep]_vars

(* ------------------------------ the search ------------------------------ *)
\* the least number of a non-empty set of numbers
MinOf(S) == CHOOSE m \in S : \A x \in S : m <= x

\* the queries handled so far whose matches included the id
MatchedBy(X) == {k \in 1..Len(qlog) : X \in qlog[k].ids}

\* those of them whose matches were merged into all_results
MergedFrom(X) == {k \in MatchedBy(X) : qlog[k].outcome = "merged"}

\* the positions of the id in a list of entries
PositionsOf(X, entries) == {p \in 1..Len(entries) : entries[p].id = X}

\* C15, as claimed: an id matched by several queries is in the returned list
\* exactly once, with the score given by the earliest query that matched it.
\* Stated for the searches most favourable to the claim: no query failed and
\* the id has a record in the Metadata Store.
C15_FirstOccurrenceWins ==
    search_pc = "s_returned" =>
        \A X \in DOMAIN coll :
            (Cardinality(MatchedBy(X)) >= 2 /\ MergedFrom(X) = MatchedBy(X)) =>
                /\ Cardinality(PositionsOf(X, search_results)) = 1
                /\ \A p \in PositionsOf(X, search_results) :
                      search_results[p].score = Similarity(qlog[MinOf(MatchedBy(X))].query, X)

\* an id is in the list at most once, with the score given by the earliest query
\* whose matches were merged and included it
FirstMergedWins(entries) ==
    \A p \in 1..Len(entries) :
        LET X == entries[p].id IN
        /\ PositionsOf(X, entries) = {p}
        /\ MergedFrom(X) # {}
        /\ entries[p].score = Similarity(qlog[MinOf(MergedFrom(X))].query, X)

\* C15, amended: at every point of the search, the accumulator and the returned
\* list hold an id at most once, and its score is the one given by the earliest
\* query whose matches included it and were merged; no later query changes it.
C15_FirstMergedOccurrenceWins ==
    /\ FirstMergedWins(all_results)
    /\ FirstMergedWins(search_results)

\* an id matched by two queries with different scores is returned with the first
C15_Witness ==
    /\ search_pc = "s_returned"
    /\ \E X \in DocIds :
          /\ MergedFrom(X) = {1, 2}
          /\ Similarity(qlog[1].query, X) # Similarity(qlog[2].query, X)
          /\ \E p \in PositionsOf(X, search_results) :
                search_results[p].score = Similarity(qlog[1].query, X)

\* the merged entries that are not returned
Dropped == Range(all_results) \ Range(search_results)

\* C16: the returned list has at most result_budget entries, in order of
\* non-increasing score; they are entries of the merged accumulator, as many as
\* the budget allows, and no entry left out has a higher score than a returned one.
C16_ResultBudget ==
    search_pc = "s_returned" =>
        /\ Len(search_results) <= result_budget
        /\ Len(search_results) = Min(result_budget, Len(all_results))
        /\ \A p, r \in 1..Len(search_results) :
              p < r => search_results[p].score >= search_results[r].score
        /\ Range(search_results) \subseteq Range(all_results)
        /\ \A kept \in Range(search_results), e \in Dropped : kept.score >= e.score

\* more entries were merged than the budget allows and a lower-scoring one was
\* left out
C16_Witness ==
    /\ search_pc = "s_returned"
    /\ Len(all_results) > result_budget
    /\ Len(search_results) = result_budget
    /\ \E e \in Dropped : \A kept \in Range(search_results) : kept.score > e.score

\* what C17 asks of the step that handles a failed query
QueryFailureStep ==
    (search_pc = "s_for" /\ Len(qlog') > Len(qlog) /\ qlog'[Len(qlog) + 1].outcome = "failed") =>
        /\ all_results' = all_results
        /\ seen_ids' = seen_ids
        /\ Len(qlog') = Len(qlog) + 1
        /\ search_pc' = "s_for"

\* every query has been handled, in order
AllQueriesHandled ==
    /\ Len(qlog) = Len(queries)
    /\ \A k \in 1..Len(queries) : qlog[k].query = queries[k]

\* C17: a query that fails leaves the accumulated results as they are and the
\* loop goes on with the next query; perform_search returns, every query handled.
C17_QueryFailureContained ==
    /\ [][QueryFailureStep]_vars
    /\ [](search_pc = "s_returned" => AllQueriesHandled)
    /\ <>(search_pc = "s_returned")

\* the metadata lookup of the first query raised; the second query was merged
\* and its results returned
C17_Witness ==
    /\ search_pc = "s_returned"
    /\ Len(qlog) = 2
    /\ qlog[1].outcome = "failed" /\ qlog[1].ids # {}
    /\ qlog[2].outcome = "merged"
    /\ search_results # <<>>

(* ----------------------- staging of processed ids ----------------------- *)
\* what C21 asks of a step that stages a write: its document id is not in the
\* Processed-ID Set when it is staged
StagesOnlyNew ==
    Len(vectors_batch') = Len(vectors_batch) + 1 =>
        vectors_batch'[Len(vectors_batch')] \notin processed_ids

\* C21: neither mode stages a write for a document id that is in the
\* Processed-ID Set at that moment, so a document id is staged at most once in a
\* run, also when the id the metadata fetch returns differs from the candidate.
C21_NoRedundantStaging == [][StagesOnlyNew]_vars

====
